---------------------------- MODULE Spec2Model ----------------------------
(***************************************************************************)
(* GnuCash_yfinance: the price-ingestion pipeline of get_prices.main.      *)
(*                                                                         *)
(* One run of the program is: process_config (config.py), the prompts and  *)
(* delete_csv of main, the catalog read (mdb.get_commodities), then for    *)
(* every commodity the CommodityDataFrame constructor (_get_yf, _set_full),*)
(* the csv append and the sql append, and at last the post-processing      *)
(* procedure.  The csv file and the `prices` table outlive a run.          *)
(*                                                                         *)
(* Dates are day numbers, timedelta(1) is +1.  A Python value that may be  *)
(* None is a set: {} is None, {v} is the value v.  A close is an integer   *)
(* in units of 10^-6; value_num, the product of a rounded close and        *)
(* value_denom, is an integer in units of 10^-5 (a rounded close has at    *)
(* most five decimals).                                                    *)
(***************************************************************************)
EXTENDS Integers, Sequences, FiniteSets, TLC

VARIABLES
    pc,                   \* position of the run in get_prices.main
    run,                  \* number of the current run of the program
    cfg,                  \* the config objects returned by process_config
    execute_ppprocedure,  \* main's local: {} while unbound, else {TRUE/FALSE}
    file,                 \* the csv at output_path: {} absent, {lines} present
    prices,               \* the `prices` table of the GnuCash database
    commodities,          \* rows returned by get_commodities
    i,                    \* index of the commodity the loop is at
    comm_df,              \* the CommodityDataFrame of the current commodity
    requests,             \* calls of yfinance.Ticker(..).history in this run
    events,               \* what the run has done, in order
    fault,                \* the uncaught exception or exit that ended the run
    nuuid,                \* number of uuid4 values drawn so far
    pp_executed           \* number of executions of the stored procedure

vars == << pc, run, cfg, execute_ppprocedure, file, prices, commodities, i,
           comm_df, requests, events, fault, nuuid, pp_executed >>

-----------------------------------------------------------------------------
(* Bounds of the model *)

MaxDay == 4          \* the quote source has quotes for the days 1..MaxDay
MaxRuns == 2         \* runs of the program in a row (SpecRuns)

Days == 1..MaxDay

None == {}
Some(v) == {v}
IsNone(x) == x = {}
Val(x) == CHOOSE v \in x : TRUE

-----------------------------------------------------------------------------
(* The GnuCash database: tables `commodities` and `prices` *)

CommoditiesTable ==
    { [guid |-> "g_aapl", namespace |-> "NASDAQ",   mnemonic |-> "AAPL",
       fullname |-> "Apple Inc"],
      [guid |-> "g_msft", namespace |-> "NASDAQ",   mnemonic |-> "MSFT",
       fullname |-> "Microsoft"],
      [guid |-> "g_usd",  namespace |-> "CURRENCY", mnemonic |-> "USD",
       fullname |-> "US Dollar"],
      [guid |-> "g_eur",  namespace |-> "CURRENCY", mnemonic |-> "EUR",
       fullname |-> "Euro"],
      [guid |-> "g_che",  namespace |-> "CURRENCY", mnemonic |-> "CHE",
       fullname |-> "WIR Euro"],
      [guid |-> "g_tpl",  namespace |-> "template", mnemonic |-> "template",
       fullname |-> "template"] }

\* A row of `prices` as GnuCash itself stored it.
StoredPrice(id, cguid, dateOpt, num, denom) ==
    [ guid |-> id, commodity_guid |-> cguid, currency_guid |-> "g_eur",
      date |-> dateOpt, source |-> "user:price", type |-> "last",
      value_num |-> num, value_denom |-> denom ]

\* Price histories the database can hold when the program starts.  MSFT has
\* no price row.  In the second, the only USD row carries a NULL date: the
\* program reflects the table, it does not declare its columns, and func.max
\* over such a group is NULL.  The value_denom of a commodity is what
\* GnuCash stored: 100 for the security, 1000 or 10000 for the currency.
InitPriceTables ==
    { << StoredPrice(-1, "g_aapl", Some(1), 1001200000, 100),
         StoredPrice(-2, "g_aapl", Some(2), 1012300000, 100),
         StoredPrice(-3, "g_usd",  Some(1), 92000000, 1000),
         StoredPrice(-4, "g_eur",  Some(1), 10000000, 100),
         StoredPrice(-5, "g_che",  Some(1), 10000000, 100),
         StoredPrice(-6, "g_tpl",  Some(1), 10000000, 100) >>,
      << StoredPrice(-1, "g_aapl", Some(1), 1001200000, 100),
         StoredPrice(-3, "g_usd",  None,    920000000, 10000),
         StoredPrice(-4, "g_eur",  Some(2), 10000000, 100) >> }

-----------------------------------------------------------------------------
(* mdb: the catalog read *)

\* The rows of `prices` joined to a commodity: the inner join of the select.
PriceRowsOf(tbl, c) ==
    { k \in 1..Len(tbl) : tbl[k].commodity_guid = c.guid }

\* The select without its third .where() clause.
Selected_no_che(c) ==
    /\ c.namespace # "template"
    /\ c.mnemonic # "EUR"

\* The three .where() clauses of the select.
Selected(c) ==
    /\ c.namespace # "template"
    /\ c.mnemonic # "EUR"
    /\ c.mnemonic # "CHE"

\* Commodities the select returns a row for: joined to a price row, selected.
JoinedCommodities(tbl) ==
    { c \in CommoditiesTable : Selected(c) /\ PriceRowsOf(tbl, c) # {} }

\* The aggregate taken as func.min: the first date of the group.
MaxDate_min(tbl, ks) ==
    LET ds == UNION { tbl[k].date : k \in ks }
    IN  IF ds = {} THEN None
        ELSE Some(CHOOSE d \in ds : \A e \in ds : d <= e)

\* func.max over a group: NULL values are skipped, NULL when none is left.
MaxDate(tbl, ks) ==
    LET ds == UNION { tbl[k].date : k \in ks }
    IN  IF ds = {} THEN None
        ELSE Some(CHOOSE d \in ds : \A e \in ds : e <= d)

\* The row of the result for commodity c.  currency_guid and value_denom are
\* not aggregated: the server takes them from a row of the group, rep.
CommodityRow(tbl, c, rep) ==
    [ guid |-> c.guid, namespace |-> c.namespace, mnemonic |-> c.mnemonic,
      fullname |-> c.fullname,
      currency_guid |-> tbl[rep].currency_guid,
      last_price_date |-> MaxDate(tbl, PriceRowsOf(tbl, c)),
      value_denom |-> tbl[rep].value_denom ]

\* The rows of a group that differ in what CommodityRow takes from them.
Representatives(tbl, c) ==
    { k \in PriceRowsOf(tbl, c) :
        \A j \in PriceRowsOf(tbl, c) :
            (/\ tbl[j].currency_guid = tbl[k].currency_guid
             /\ tbl[j].value_denom = tbl[k].value_denom) => k <= j }

\* Every result get_commodities can return: one row per group, in an order
\* the select leaves to the server (it has no ORDER BY).
get_commodities(tbl) ==
    LET cs == JoinedCommodities(tbl)
        n  == Cardinality(cs)
    IN  { [k \in 1..n |-> CommodityRow(tbl, ord[k], rep[ord[k]])] :
            ord \in { f \in [1..n -> cs] : \A a, b \in 1..n : a # b => f[a] # f[b] },
            rep \in { g \in [cs -> 1..Len(tbl)] :
                        \A c \in cs : g[c] \in Representatives(tbl, c) } }

-----------------------------------------------------------------------------
(* config: the configuration values and process_config *)

\* os.path.exists(output_path)
exists(f) == ~IsNone(f)

Periods == { "auto", "1d", "max" }
Currencies == { "EUR", "USD" }

\* The merged cli / config.ini / default values (config_cm) of one run,
\* every combination.  pwd, ppprocedure and ppdb stand for "is not None";
\* host and user are given.
Configs ==
    [ silent : BOOLEAN, pwd : BOOLEAN,
      to_mdb : BOOLEAN, to_csv : BOOLEAN, overwrite_csv : BOOLEAN,
      period : Periods, start_date : {None, Some(2)},
      end_date : {MaxDay - 1, MaxDay}, currency : Currencies,
      ppprocedure : BOOLEAN, ppdb : BOOLEAN, do_pp : {FALSE} ]

\* The settings of the runs in a row: silent with a password, no start
\* date, no post-processing, the default currency, and the default end
\* date, date.today(): each run is made a day after the one before, the
\* last one on day MaxDay.
RunConfigs ==
    [ silent : {TRUE}, pwd : {TRUE},
      to_mdb : BOOLEAN, to_csv : BOOLEAN, overwrite_csv : {FALSE},
      period : {"auto", "max"}, start_date : {None},
      end_date : {MaxDay - MaxRuns + run}, currency : {"EUR"},
      ppprocedure : {FALSE}, ppdb : {FALSE}, do_pp : {FALSE} ]

\* What the operator types at a prompt: yes, no, or just Enter.
Answers == { "y", "n", "" }

\* get_bool with a bool default: Enter returns the default.
get_bool(answer, default) ==
    IF answer = "y" THEN TRUE
    ELSE IF answer = "n" THEN FALSE
    ELSE default

\* GeneralConfig.__post_init__: do_pp from ppprocedure and ppdb.
GeneralPostInit(c) ==
    LET c1 == IF c.ppprocedure /\ c.ppdb THEN [c EXCEPT !.do_pp = TRUE]
              ELSE IF ~c.ppprocedure /\ ~c.ppdb THEN [c EXCEPT !.do_pp = FALSE]
              ELSE c
    IN  IF c1.silent /\ (c1.ppprocedure # c1.ppdb)
        THEN [c1 EXCEPT !.do_pp = FALSE]
        ELSE c1

\* ConnectionConfig.__post_init__ without the test of the password.
ConnectionPostInit_unchecked(c) == [ fault |-> "", cfg |-> c ]

\* ConnectionConfig.__post_init__: no password in silent mode raises
\* ConfigError, otherwise get_pwd asks until a password is given.
ConnectionPostInit(c) ==
    IF ~c.pwd /\ c.silent
    THEN [ fault |-> "ConfigError", cfg |-> c ]
    ELSE [ fault |-> "", cfg |-> [c EXCEPT !.pwd = TRUE] ]

\* config.delete_csv: config.py never imports os, so the first statement,
\* os.path.exists(output_path), raises NameError.
config_delete_csv(f, overwrite_csv, answer) ==
    [ fault |-> "NameError", file |-> f, to_csv |-> TRUE ]

\* process_config: the config objects, then (not silent) the three prompts
\* and delete_csv.
process_config(c, f, a_mdb, a_csv, a_pp, a_ow) ==
    LET conn == ConnectionPostInit(GeneralPostInit(c))
        c1   == conn.cfg
        c2   == IF c1.silent THEN c1
                ELSE [c1 EXCEPT !.to_mdb = get_bool(a_mdb, c1.to_mdb),
                                !.to_csv = get_bool(a_csv, c1.to_csv)]
        c3   == IF c2.silent THEN c2
                ELSE IF c2.ppprocedure /\ c2.ppdb
                     THEN [c2 EXCEPT !.do_pp = get_bool(a_pp, c2.to_mdb)]
                ELSE IF c2.ppprocedure # c2.ppdb
                     THEN [c2 EXCEPT !.do_pp = FALSE]
                ELSE c2
        del  == config_delete_csv(f, c3.overwrite_csv, a_ow)
    IN  IF conn.fault # "" THEN [ fault |-> conn.fault, cfg |-> c1, file |-> f ]
        ELSE IF ~c3.silent /\ c3.to_csv
             THEN [ fault |-> del.fault,
                    cfg |-> [c3 EXCEPT !.to_csv = del.to_csv],
                    file |-> del.file ]
        ELSE [ fault |-> "", cfg |-> c3, file |-> f ]

-----------------------------------------------------------------------------
(* get_prices: the prompts of main and delete_csv *)

\* get_prices.delete_csv: an existing file is deleted when the operator
\* agrees, and the script exits when the operator declines.
delete_csv(f, overwrite_csv, answer) ==
    IF exists(f)
    THEN IF get_bool(answer, overwrite_csv)
         THEN [ fault |-> "", file |-> None, declined |-> FALSE ]
         ELSE [ fault |-> "SystemExit", file |-> f, declined |-> TRUE ]
    ELSE [ fault |-> "", file |-> f, declined |-> FALSE ]

-----------------------------------------------------------------------------
(* The quote source: yfinance.Ticker(symbol).history *)

\* Symbols the source has quotes for; AAPL, USDEUR=X and USDUSD=X.
KnownSymbols == { <<"AAPL">>, <<"USD", "EUR", "=X">>, <<"USD", "USD", "=X">> }

\* The closing price of a symbol on a day, in units of 10^-6: AAPL closes
\* at 101.234 on day 2 and at 102.345 on day 3.
MarketClose(symbol, d) ==
    IF symbol = <<"AAPL">> THEN 99012000 + 1111000 * d
    ELSE IF symbol = <<"USD", "EUR", "=X">> THEN 923451 + 1002 * d
    ELSE 1000000

\* A call of history: start and end, or a period.
DateRequest(symbol, start, end) ==
    [ symbol |-> symbol, start |-> Some(start), end |-> Some(end),
      period |-> None ]
PeriodRequest(symbol, period) ==
    [ symbol |-> symbol, start |-> None, end |-> None, period |-> Some(period) ]

\* The days a request covers: from start up to, not including, end; the
\* last day for "1d", every day for "max".
RequestDays(req) ==
    IF ~IsNone(req.start)
    THEN { d \in Days : Val(req.start) <= d /\ d < Val(req.end) }
    ELSE IF Val(req.period) = "1d" THEN { MaxDay }
    ELSE Days

\* The rows of a set of days, ascending by date.
RECURSIVE QuoteRows(_, _)
QuoteRows(symbol, ds) ==
    IF ds = {} THEN << >>
    ELSE LET d == CHOOSE x \in ds : \A y \in ds : x <= y
         IN  << [ date |-> d, Close |-> MarketClose(symbol, d) ] >>
             \o QuoteRows(symbol, ds \ {d})

\* The table history returns when it returns one.
history(req) ==
    IF req.symbol \in KnownSymbols
    THEN QuoteRows(req.symbol, RequestDays(req))
    ELSE << >>

\* How a call of history ends: with a table, or raising.
Responses == { "ok", "IndexError", "ConnectionError" }

-----------------------------------------------------------------------------
(* df: CommodityDataFrame *)

\* The symbol _get_yf asks for.
yf_symbol(commodity, currency) ==
    IF commodity.namespace = "CURRENCY"
    THEN << commodity.mnemonic, currency, "=X" >>
    ELSE << commodity.mnemonic >>

\* What a call of history gives _get_yf: the table, or the exception.
Call(req, resp) ==
    IF resp = "ok"
    THEN [ fault |-> "", yf_df |-> history(req),
           requests |-> << [ req |-> req, resp |-> resp ] >> ]
    ELSE [ fault |-> resp, yf_df |-> << >>,
           requests |-> << [ req |-> req, resp |-> resp ] >> ]

\* _get_yf with the 'auto' window starting on the last price date itself.
_get_yf_no_increment(commodity, currency, c, resp) ==
    LET sym == yf_symbol(commodity, currency)
    IN  IF ~IsNone(c.start_date)
        THEN Call(DateRequest(sym, Val(c.start_date), c.end_date), resp)
        ELSE IF c.period = "auto"
        THEN IF IsNone(commodity.last_price_date)
             THEN [ fault |-> "TypeError", yf_df |-> << >>, requests |-> << >> ]
             ELSE LET r == Call(DateRequest(sym,
                                    Val(commodity.last_price_date),
                                    c.end_date), resp)
                  IN  IF r.fault = "IndexError"
                      THEN [ r EXCEPT !.fault = "" ]
                      ELSE r
        ELSE Call(PeriodRequest(sym, c.period), resp)

\* _get_yf without the try / except IndexError of the 'auto' branch.
_get_yf_uncaught(commodity, currency, c, resp) ==
    LET sym == yf_symbol(commodity, currency)
    IN  IF ~IsNone(c.start_date)
        THEN Call(DateRequest(sym, Val(c.start_date), c.end_date), resp)
        ELSE IF c.period = "auto"
        THEN IF IsNone(commodity.last_price_date)
             THEN [ fault |-> "TypeError", yf_df |-> << >>, requests |-> << >> ]
             ELSE Call(DateRequest(sym, Val(commodity.last_price_date) + 1,
                                   c.end_date), resp)
        ELSE Call(PeriodRequest(sym, c.period), resp)

\* _get_yf with the try / except IndexError around the three branches.
_get_yf_catch_all(commodity, currency, c, resp) ==
    LET sym == yf_symbol(commodity, currency)
        r   == IF ~IsNone(c.start_date)
               THEN Call(DateRequest(sym, Val(c.start_date), c.end_date), resp)
               ELSE IF c.period = "auto"
               THEN IF IsNone(commodity.last_price_date)
                    THEN [ fault |-> "TypeError", yf_df |-> << >>,
                           requests |-> << >> ]
                    ELSE Call(DateRequest(sym,
                                  Val(commodity.last_price_date) + 1,
                                  c.end_date), resp)
               ELSE Call(PeriodRequest(sym, c.period), resp)
    IN  IF r.fault = "IndexError" THEN [ r EXCEPT !.fault = "" ] ELSE r

\* _get_yf passing the end date along with a named period.
_get_yf_period_with_end(commodity, currency, c, resp) ==
    LET sym == yf_symbol(commodity, currency)
    IN  IF ~IsNone(c.start_date)
        THEN Call(DateRequest(sym, Val(c.start_date), c.end_date), resp)
        ELSE IF c.period = "auto"
        THEN IF IsNone(commodity.last_price_date)
             THEN [ fault |-> "TypeError", yf_df |-> << >>, requests |-> << >> ]
             ELSE LET r == Call(DateRequest(sym,
                                    Val(commodity.last_price_date) + 1,
                                    c.end_date), resp)
                  IN  IF r.fault = "IndexError"
                      THEN [ r EXCEPT !.fault = "" ]
                      ELSE r
        ELSE Call([ PeriodRequest(sym, c.period)
                      EXCEPT !.end = Some(c.end_date) ], resp)

\* _get_yf with the test of the period before the test of the start date.
_get_yf_period_first(commodity, currency, c, resp) ==
    LET sym == yf_symbol(commodity, currency)
    IN  IF c.period = "auto"
        THEN IF IsNone(commodity.last_price_date)
             THEN [ fault |-> "TypeError", yf_df |-> << >>, requests |-> << >> ]
             ELSE LET r == Call(DateRequest(sym,
                                    Val(commodity.last_price_date) + 1,
                                    c.end_date), resp)
                  IN  IF r.fault = "IndexError"
                      THEN [ r EXCEPT !.fault = "" ]
                      ELSE r
        ELSE IF ~IsNone(c.start_date)
        THEN Call(DateRequest(sym, Val(c.start_date), c.end_date), resp)
        ELSE Call(PeriodRequest(sym, c.period), resp)

\* CommodityDataFrame._get_yf.  In the 'auto' branch the start date is
\* computed before the try, and only IndexError is caught.
_get_yf(commodity, currency, c, resp) ==
    LET sym == yf_symbol(commodity, currency)
    IN  IF ~IsNone(c.start_date)
        THEN Call(DateRequest(sym, Val(c.start_date), c.end_date), resp)
        ELSE IF c.period = "auto"
        THEN IF IsNone(commodity.last_price_date)
             THEN [ fault |-> "TypeError", yf_df |-> << >>, requests |-> << >> ]
             ELSE LET r == Call(DateRequest(sym,
                                    Val(commodity.last_price_date) + 1,
                                    c.end_date), resp)
                  IN  IF r.fault = "IndexError"
                      THEN [ r EXCEPT !.fault = "" ]
                      ELSE r
        ELSE Call(PeriodRequest(sym, c.period), resp)

\* floor(log2(num / den)) for positive integers: the binary exponent of the
\* double nearest to num / den.
RECURSIVE FloorLog2(_, _)
FloorLog2(num, den) ==
    IF num < den THEN FloorLog2(2 * num, den) - 1
    ELSE IF num \div 2 >= den THEN FloorLog2(num \div 2, den) + 1
    ELSE 0

RECURSIVE Pow2(_)
Pow2(e) == IF e = 0 THEN 1 ELSE 2 * Pow2(e - 1)

\* 2^e modulo 5^6.
RECURSIVE Pow2Mod(_)
Pow2Mod(e) == IF e = 0 THEN 1 ELSE (2 * Pow2Mod(e - 1)) % 15625

\* A close is a float64: the double nearest to the decimal x * 10^-6.  With
\* s = 52 - FloorLog2(x, 10^6) its mantissa is x * 2^(s - 6) / 5^6 rounded
\* to an integer; DoubleError(x) is the double minus the decimal, in units
\* of 2^-s / 5^6 (never a tie, 5^6 being odd).
DoubleError(x) ==
    LET rem == ((x % 15625) * Pow2Mod(46 - FloorLog2(x, 1000000))) % 15625
    IN  IF 2 * rem < 15625 THEN -rem ELSE 15625 - rem

\* Series.round(decimals) of a price in units of 10^-6, as numpy computes
\* it in float64: the close times 10^decimals, rint (ties to even), divided
\* by 10^decimals.  A decimal that is no tie is far enough from one for the
\* doubles to round as the decimal does.  For a decimal tie q + 1/2 the
\* product of the double and 10^decimals is off the tie by err * 10^decimals
\* / (5^6 * 2^s); it is rounded to the double q + 1/2, and then to the even
\* neighbour, when that is at most half the spacing of the doubles at
\* q + 1/2 (half of it below 1/2), and else rint takes the side of err.
Round(x, decimals) ==
    LET unit  == IF decimals = 5 THEN 10 ELSE 10000
        q     == x \div unit
        r     == x % unit
        err   == DoubleError(x)
        off   == (IF err < 0 THEN -err ELSE err) * (1000000 \div unit)
                   * (IF q = 0 /\ err < 0 THEN 2 ELSE 1)
        half  == 15625 * Pow2(FloorLog2(2 * q + 1, 2)
                                - FloorLog2(x, 1000000) - 1)
    IN  IF 2 * r < unit THEN q * unit
        ELSE IF 2 * r > unit THEN (q + 1) * unit
        ELSE IF off > half
        THEN IF err < 0 THEN q * unit ELSE (q + 1) * unit
        ELSE IF q % 2 = 0 THEN q * unit
        ELSE (q + 1) * unit

\* FullRow rounding every close to two decimals.
FullRow_two_decimals(row, commodity, currency, uuid) ==
    LET close == Round(row.Close, 2)
    IN  [ date |-> Some(row.date), Curr |-> currency, Close |-> close,
          Symbol |-> commodity.mnemonic, Full_Name |-> commodity.fullname,
          Namespace |-> commodity.namespace, guid |-> uuid,
          commodity_guid |-> commodity.guid,
          currency_guid |-> commodity.currency_guid,
          source |-> "user:price", type |-> "last",
          value_num |-> (close \div 10) * commodity.value_denom,
          value_denom |-> commodity.value_denom ]

\* FullRow with value_num taken from the close as quoted, not as rounded.
FullRow_unrounded_num(row, commodity, currency, uuid) ==
    LET close == IF commodity.namespace = "CURRENCY"
                 THEN Round(row.Close, 5)
                 ELSE Round(row.Close, 2)
    IN  [ date |-> Some(row.date), Curr |-> currency, Close |-> close,
          Symbol |-> commodity.mnemonic, Full_Name |-> commodity.fullname,
          Namespace |-> commodity.namespace, guid |-> uuid,
          commodity_guid |-> commodity.guid,
          currency_guid |-> commodity.currency_guid,
          source |-> "user:price", type |-> "last",
          value_num |-> (row.Close \div 10) * commodity.value_denom,
          value_denom |-> commodity.value_denom ]

\* One row of the full DataFrame.  value_num is Close * value_denom, in
\* units of 10^-5.
FullRow(row, commodity, currency, uuid) ==
    LET close == IF commodity.namespace = "CURRENCY"
                 THEN Round(row.Close, 5)
                 ELSE Round(row.Close, 2)
    IN  [ date |-> Some(row.date), Curr |-> currency, Close |-> close,
          Symbol |-> commodity.mnemonic, Full_Name |-> commodity.fullname,
          Namespace |-> commodity.namespace, guid |-> uuid,
          commodity_guid |-> commodity.guid,
          currency_guid |-> commodity.currency_guid,
          source |-> "user:price", type |-> "last",
          value_num |-> (close \div 10) * commodity.value_denom,
          value_denom |-> commodity.value_denom ]

\* _set_full with the rows of the frame in the reverse order.
_set_full_reversed(yf_df, commodity, currency, n) ==
    IF yf_df # << >> /\ commodity.mnemonic # currency
    THEN [ k \in 1..Len(yf_df) |->
             FullRow(yf_df[Len(yf_df) + 1 - k], commodity, currency, n + k) ]
    ELSE << >>

\* _set_full drawing one uuid4 value for the whole frame.
_set_full_one_uuid(yf_df, commodity, currency, n) ==
    IF yf_df # << >> /\ commodity.mnemonic # currency
    THEN [ k \in 1..Len(yf_df) |->
             FullRow(yf_df[k], commodity, currency, n + 1) ]
    ELSE << >>

\* _set_full without the test of the mnemonic against the currency.
_set_full_no_guard(yf_df, commodity, currency, n) ==
    IF yf_df # << >>
    THEN [ k \in 1..Len(yf_df) |->
             FullRow(yf_df[k], commodity, currency, n + k) ]
    ELSE << >>

\* CommodityDataFrame._set_full; n uuid4 values were drawn before.
_set_full(yf_df, commodity, currency, n) ==
    IF yf_df # << >> /\ commodity.mnemonic # currency
    THEN [ k \in 1..Len(yf_df) |->
             FullRow(yf_df[k], commodity, currency, n + k) ]
    ELSE << >>

\* sql_df handing the whole frame to to_sql.
sql_df_full(full_df) == full_df

\* CommodityDataFrame.sql_df with the index: the columns to_sql inserts.
sql_df(full_df) ==
    [ k \in 1..Len(full_df) |->
        [ date |-> full_df[k].date, guid |-> full_df[k].guid,
          commodity_guid |-> full_df[k].commodity_guid,
          currency_guid |-> full_df[k].currency_guid,
          source |-> full_df[k].source, type |-> full_df[k].type,
          value_num |-> full_df[k].value_num,
          value_denom |-> full_df[k].value_denom ] ]

\* The lines of the csv: the header line and one line per row.
HeaderLine == [ header |-> TRUE, row |-> << >> ]
DataLine(r) == [ header |-> FALSE, row |-> << r >> ]

\* to_csv with mode = 'w': the file is written anew.
to_csv_overwrite(f, full_df, header) ==
    LET lines == [ k \in 1..Len(full_df) |-> DataLine(full_df[k]) ]
    IN  Some((IF header THEN << HeaderLine >> ELSE << >>) \o lines)

\* DataFrame.to_csv(output_path, mode = 'a', header = header).
to_csv(f, full_df, header) ==
    LET old   == IF IsNone(f) THEN << >> ELSE Val(f)
        lines == [ k \in 1..Len(full_df) |-> DataLine(full_df[k]) ]
    IN  Some(old \o (IF header THEN << HeaderLine >> ELSE << >>) \o lines)

\* The header argument of to_csv with the test of the file left out.
csv_header_always(f) == TRUE

\* main, line 167: header = not os.path.exists(data_cfg.output_path).
csv_header(f) == ~exists(f)

\* to_sql with if_exists = 'replace': the table is dropped and made anew.
to_sql_replace(tbl, df) == df

\* DataFrame.to_sql(name = 'prices', if_exists = 'append', index = True).
to_sql(tbl, df) == tbl \o df

-----------------------------------------------------------------------------
(* The state machine of get_prices.main *)

\* config_defaults of process_config.
DefaultConfig ==
    [ silent |-> FALSE, pwd |-> FALSE, to_mdb |-> FALSE, to_csv |-> FALSE,
      overwrite_csv |-> FALSE, period |-> "auto", start_date |-> None,
      end_date |-> MaxDay, currency |-> "EUR", ppprocedure |-> FALSE,
      ppdb |-> FALSE, do_pp |-> FALSE ]

EmptyFrame == [ yf_df |-> << >>, full_df |-> << >> ]

Event(op, k) == [ op |-> op, k |-> k ]

\* A csv an earlier run left behind: the header and one AAPL row.
EarlierFile ==
    LET tbl == CHOOSE t \in InitPriceTables : TRUE
        res == CHOOSE r \in get_commodities(tbl) : TRUE
        c   == res[CHOOSE k \in 1..Len(res) : res[k].mnemonic = "AAPL"]
        yf  == history(DateRequest(<<"AAPL">>, 1, 2))
    IN  to_csv(None, _set_full(yf, c, "EUR", -10), TRUE)

StartOfRun ==
    /\ pc = "start"
    /\ cfg = DefaultConfig
    /\ execute_ppprocedure = None
    /\ commodities = << >>
    /\ i = 0
    /\ comm_df = EmptyFrame
    /\ requests = << >>
    /\ events = << >>
    /\ fault = ""

\* One run, from any price history, with or without a csv left behind.
Init ==
    /\ StartOfRun
    /\ run = 1
    /\ file \in { None, EarlierFile }
    /\ prices \in InitPriceTables
    /\ nuuid = 0
    /\ pp_executed = 0

\* Runs in a row, the first one without a csv.
InitRuns ==
    /\ StartOfRun
    /\ run = 1
    /\ file = None
    /\ prices \in InitPriceTables
    /\ nuuid = 0
    /\ pp_executed = 0

\* How the run ends on an exception or sys.exit.
Ended(f) == IF f = "SystemExit" THEN "exited" ELSE "crashed"

\* main, line 106: process_config, with the settings drawn from cs.  A
\* silent run has no prompt, hence no answers.
ProcessConfig(cs) ==
    /\ pc = "start"
    /\ \E c \in cs :
       \E a_mdb, a_csv, a_pp, a_ow \in IF c.silent THEN {""} ELSE Answers :
         LET r == process_config(c, file, a_mdb, a_csv, a_pp, a_ow)
         IN  /\ cfg' = r.cfg
             /\ file' = r.file
             /\ fault' = r.fault
             /\ pc' = IF r.fault = "" THEN "main" ELSE Ended(r.fault)
    /\ UNCHANGED << run, execute_ppprocedure, prices, commodities, i, comm_df,
                    requests, events, nuuid, pp_executed >>

\* main, lines 108-130: the prompts and delete_csv, when not silent.
MainPrompts ==
    /\ pc = "main"
    /\ IF cfg.silent
       THEN /\ pc' = "connect"
            /\ UNCHANGED << cfg, execute_ppprocedure, file, fault, events >>
       ELSE \E a_mdb, a_csv, a_pp, a_ow \in Answers :
              LET c1  == [cfg EXCEPT !.to_mdb = get_bool(a_mdb, cfg.to_mdb),
                                     !.to_csv = get_bool(a_csv, cfg.to_csv)]
                  del == IF c1.to_csv
                         THEN delete_csv(file, c1.overwrite_csv, a_ow)
                         ELSE [ fault |-> "", file |-> file,
                                declined |-> FALSE ]
              IN  /\ cfg' = c1
                  /\ events' = IF del.declined
                               THEN Append(events, Event("declined", 0))
                               ELSE events
                  /\ execute_ppprocedure' = Some(get_bool(a_pp, c1.ppprocedure))
                  /\ file' = del.file
                  /\ fault' = del.fault
                  /\ pc' = IF del.fault = "" THEN "connect" ELSE Ended(del.fault)
    /\ UNCHANGED << run, prices, commodities, i, comm_df, requests, nuuid,
                    pp_executed >>

\* main, lines 132-140: the password check, create_engine, get_commodities.
\* The catalog read returns its rows or raises (store unreachable).
Connect ==
    /\ pc = "connect"
    /\ IF cfg.silent /\ ~cfg.pwd
       THEN /\ fault' = "SystemExit"
            /\ pc' = "exited"
            /\ UNCHANGED << commodities, i >>
       ELSE \/ /\ commodities' \in get_commodities(prices)
               /\ i' = 1
               /\ pc' = "loop"
               /\ UNCHANGED fault
            \/ /\ fault' = "OperationalError"
               /\ pc' = "crashed"
               /\ UNCHANGED << commodities, i >>
    /\ UNCHANGED << run, cfg, execute_ppprocedure, file, prices, comm_df,
                    requests, events, nuuid, pp_executed >>

\* main, line 155: df.CommodityDataFrame(commodity, currency, yf_cfg), that
\* is _get_yf then _set_full.  No exception is caught by main.
NewDataFrame ==
    /\ pc = "loop"
    /\ i <= Len(commodities)
    /\ \E resp \in Responses :
         LET yf   == _get_yf(commodities[i], cfg.currency, cfg, resp)
             full == _set_full(yf.yf_df, commodities[i], cfg.currency, nuuid)
         IN  /\ requests' = requests \o
                   [ j \in 1..Len(yf.requests) |->
                       [ k |-> i, req |-> yf.requests[j].req,
                         resp |-> yf.requests[j].resp ] ]
             /\ IF yf.fault = ""
                THEN /\ comm_df' = [ yf_df |-> yf.yf_df, full_df |-> full ]
                     /\ nuuid' = nuuid + Len(full)
                     /\ events' = Append(events, Event("frame", i))
                     /\ pc' = "csv"
                     /\ UNCHANGED fault
                ELSE /\ fault' = yf.fault
                     /\ pc' = "crashed"
                     /\ events' = Append(events, Event("fetch_failed", i))
                     /\ UNCHANGED << comm_df, nuuid >>
    /\ UNCHANGED << run, cfg, execute_ppprocedure, file, prices, commodities,
                    i, pp_executed >>

\* The csv append taken only when the sql append is not asked for.
WriteCsv_unless_mdb ==
    /\ pc = "csv"
    /\ IF comm_df.full_df # << >> /\ cfg.to_csv /\ ~cfg.to_mdb
       THEN \/ /\ file' = to_csv(file, comm_df.full_df, csv_header(file))
               /\ events' = Append(events, Event("csv", i))
               /\ pc' = "sql"
               /\ UNCHANGED fault
            \/ /\ fault' = "OSError"
               /\ events' = Append(events, Event("csv_failed", i))
               /\ pc' = "crashed"
               /\ UNCHANGED file
       ELSE /\ pc' = "sql"
            /\ UNCHANGED << file, events, fault >>
    /\ UNCHANGED << run, cfg, execute_ppprocedure, prices, commodities, i,
                    comm_df, requests, nuuid, pp_executed >>

\* The csv append without the test of line 157 for an empty frame.
WriteCsv_unguarded ==
    /\ pc = "csv"
    /\ IF cfg.to_csv
       THEN \/ /\ file' = to_csv(file, comm_df.full_df, csv_header(file))
               /\ events' = Append(events, Event("csv", i))
               /\ pc' = "sql"
               /\ UNCHANGED fault
            \/ /\ fault' = "OSError"
               /\ events' = Append(events, Event("csv_failed", i))
               /\ pc' = "crashed"
               /\ UNCHANGED file
       ELSE /\ pc' = "sql"
            /\ UNCHANGED << file, events, fault >>
    /\ UNCHANGED << run, cfg, execute_ppprocedure, prices, commodities, i,
                    comm_df, requests, nuuid, pp_executed >>

\* main, lines 157-169: the csv append, when the frame is not empty and
\* to_csv is set.  to_csv appends or raises, the file untouched.
WriteCsv ==
    /\ pc = "csv"
    /\ IF comm_df.full_df # << >> /\ cfg.to_csv
       THEN \/ /\ file' = to_csv(file, comm_df.full_df, csv_header(file))
               /\ events' = Append(events, Event("csv", i))
               /\ pc' = "sql"
               /\ UNCHANGED fault
            \/ /\ fault' = "OSError"
               /\ events' = Append(events, Event("csv_failed", i))
               /\ pc' = "crashed"
               /\ UNCHANGED file
       ELSE /\ pc' = "sql"
            /\ UNCHANGED << file, events, fault >>
    /\ UNCHANGED << run, cfg, execute_ppprocedure, prices, commodities, i,
                    comm_df, requests, nuuid, pp_executed >>

\* The sql append under the test of to_csv instead of to_mdb.
WriteSql_by_csv_flag ==
    /\ pc = "sql"
    /\ IF comm_df.full_df # << >> /\ cfg.to_csv
       THEN \/ /\ prices' = to_sql(prices, sql_df(comm_df.full_df))
               /\ events' = Append(Append(events, Event("sql", i)),
                                   Event("done", i))
               /\ pc' = "loop"
               /\ i' = i + 1
               /\ UNCHANGED fault
            \/ /\ fault' = "OperationalError"
               /\ events' = Append(events, Event("sql_failed", i))
               /\ pc' = "crashed"
               /\ UNCHANGED << prices, i >>
       ELSE /\ pc' = "loop"
            /\ i' = i + 1
            /\ events' = Append(events, Event("done", i))
            /\ UNCHANGED << prices, fault >>
    /\ UNCHANGED << run, cfg, execute_ppprocedure, file, commodities, comm_df,
                    requests, nuuid, pp_executed >>

\* The sql step going back to the loop without taking the next commodity.
WriteSql_no_advance ==
    /\ pc = "sql"
    /\ IF comm_df.full_df # << >> /\ cfg.to_mdb
       THEN \/ /\ prices' = to_sql(prices, sql_df(comm_df.full_df))
               /\ events' = Append(Append(events, Event("sql", i)),
                                   Event("done", i))
               /\ pc' = "loop"
               /\ UNCHANGED << i, fault >>
            \/ /\ fault' = "OperationalError"
               /\ events' = Append(events, Event("sql_failed", i))
               /\ pc' = "crashed"
               /\ UNCHANGED << prices, i >>
       ELSE /\ pc' = "loop"
            /\ i' = i + 1
            /\ events' = Append(events, Event("done", i))
            /\ UNCHANGED << prices, fault >>
    /\ UNCHANGED << run, cfg, execute_ppprocedure, file, commodities, comm_df,
                    requests, nuuid, pp_executed >>

\* The sql append nested in the branch of the csv append.
WriteSql_if_csv ==
    /\ pc = "sql"
    /\ IF comm_df.full_df # << >> /\ cfg.to_csv /\ cfg.to_mdb
       THEN \/ /\ prices' = to_sql(prices, sql_df(comm_df.full_df))
               /\ events' = Append(Append(events, Event("sql", i)),
                                   Event("done", i))
               /\ pc' = "loop"
               /\ i' = i + 1
               /\ UNCHANGED fault
            \/ /\ fault' = "OperationalError"
               /\ events' = Append(events, Event("sql_failed", i))
               /\ pc' = "crashed"
               /\ UNCHANGED << prices, i >>
       ELSE /\ pc' = "loop"
            /\ i' = i + 1
            /\ events' = Append(events, Event("done", i))
            /\ UNCHANGED << prices, fault >>
    /\ UNCHANGED << run, cfg, execute_ppprocedure, file, commodities, comm_df,
                    requests, nuuid, pp_executed >>

\* main, lines 157 and 171-179: the sql append, when the frame is not empty
\* and to_mdb is set; then the loop goes to the next commodity.  to_sql
\* inserts the rows in one transaction or raises.
WriteSql ==
    /\ pc = "sql"
    /\ IF comm_df.full_df # << >> /\ cfg.to_mdb
       THEN \/ /\ prices' = to_sql(prices, sql_df(comm_df.full_df))
               /\ events' = Append(Append(events, Event("sql", i)),
                                   Event("done", i))
               /\ pc' = "loop"
               /\ i' = i + 1
               /\ UNCHANGED fault
            \/ /\ fault' = "OperationalError"
               /\ events' = Append(events, Event("sql_failed", i))
               /\ pc' = "crashed"
               /\ UNCHANGED << prices, i >>
       ELSE /\ pc' = "loop"
            /\ i' = i + 1
            /\ events' = Append(events, Event("done", i))
            /\ UNCHANGED << prices, fault >>
    /\ UNCHANGED << run, cfg, execute_ppprocedure, file, commodities, comm_df,
                    requests, nuuid, pp_executed >>

\* main, lines 180-192: the post-processing procedure.  In silent mode
\* execute_ppprocedure was never assigned.
PostProcessing ==
    /\ pc = "loop"
    /\ i > Len(commodities)
    /\ IF ~cfg.ppprocedure
       THEN /\ pc' = "done"
            /\ UNCHANGED << fault, pp_executed >>
       ELSE IF IsNone(execute_ppprocedure)
       THEN /\ fault' = "UnboundLocalError"
            /\ pc' = "crashed"
            /\ UNCHANGED pp_executed
       ELSE IF ~Val(execute_ppprocedure)
       THEN /\ pc' = "done"
            /\ UNCHANGED << fault, pp_executed >>
       ELSE IF ~cfg.ppdb
       THEN /\ fault' = "SystemExit"
            /\ pc' = "exited"
            /\ UNCHANGED pp_executed
       ELSE \/ /\ pp_executed' = pp_executed + 1
               /\ pc' = "done"
               /\ UNCHANGED fault
            \/ /\ fault' = "OperationalError"
               /\ pc' = "crashed"
               /\ UNCHANGED pp_executed
    /\ UNCHANGED << run, cfg, execute_ppprocedure, file, prices, commodities,
                    i, comm_df, requests, events, nuuid >>

\* The program is started again; the csv and the database are as the
\* earlier run left them.
NewRun ==
    /\ pc \in { "done", "exited", "crashed" }
    /\ run < MaxRuns
    /\ run' = run + 1
    /\ pc' = "start"
    /\ cfg' = DefaultConfig
    /\ execute_ppprocedure' = None
    /\ commodities' = << >>
    /\ i' = 0
    /\ comm_df' = EmptyFrame
    /\ requests' = << >>
    /\ events' = << >>
    /\ fault' = ""
    /\ UNCHANGED << file, prices, nuuid, pp_executed >>

Next ==
    \/ ProcessConfig(Configs)
    \/ MainPrompts
    \/ Connect
    \/ NewDataFrame
    \/ WriteCsv
    \/ WriteSql
    \/ PostProcessing

NextRuns ==
    \/ ProcessConfig(RunConfigs)
    \/ MainPrompts
    \/ Connect
    \/ NewDataFrame
    \/ WriteCsv
    \/ WriteSql
    \/ PostProcessing
    \/ NewRun

Spec == Init /\ [][Next]_vars

SpecRuns == InitRuns /\ [][NextRuns]_vars

TypeOK ==
    /\ pc \in { "start", "main", "connect", "loop", "csv", "sql", "done",
                "exited", "crashed" }
    /\ run \in 1..MaxRuns
    /\ i \in 0..(Len(commodities) + 1)

-----------------------------------------------------------------------------
(* Properties *)

HasEvent(op, k) == \E n \in 1..Len(events) : events[n] = Event(op, k)

\* The run is over: main returned, called sys.exit, or raised.
RunEnded == pc \in { "done", "exited", "crashed" }

\* The run has its settings, no start date is set and the period is 'auto'.
AutoMode == pc # "start" /\ IsNone(cfg.start_date) /\ cfg.period = "auto"

\* The constructor of commodity k has been entered.
Entered(k) == HasEvent("frame", k) \/ HasEvent("fetch_failed", k)

\* Every commodity after k has had its constructor entered.
LaterEntered(k) == \A j \in (k + 1)..Len(commodities) : Entered(j)

\* A sink has been written, or a write has been tried, for commodity k.
SinkTouched(k) ==
    \/ HasEvent("csv", k) \/ HasEvent("csv_failed", k)
    \/ HasEvent("sql", k) \/ HasEvent("sql_failed", k)

\* The last lines of the csv are the rows of the frame df.
FileEndsWith(df) ==
    /\ exists(file)
    /\ LET ls == Val(file)
           n  == Len(df)
       IN  /\ Len(ls) >= n
           /\ \A j \in 1..n : ls[Len(ls) - n + j] = DataLine(df[j])

\* C1: in 'auto' mode without a start date, history is called for every
\* commodity with a last price date, with start = that date + 1 day and
\* end = the end date of the configuration.
C1_AutoWindow ==
    AutoMode =>
      /\ \A n \in 1..Len(requests) :
           LET r == requests[n]
               c == commodities[r.k]
           IN  ~IsNone(c.last_price_date) =>
                 /\ r.req.start = Some(Val(c.last_price_date) + 1)
                 /\ r.req.end = Some(cfg.end_date)
                 /\ IsNone(r.req.period)
      /\ \A k \in 1..Len(commodities) :
           (Entered(k) /\ ~IsNone(commodities[k].last_price_date)) =>
             \E n \in 1..Len(requests) : requests[n].k = k

\* An 'auto' request for a commodity with a last price date got a table.
C1_Witness ==
    /\ AutoMode
    /\ \E n \in 1..Len(requests) :
         /\ ~IsNone(commodities[requests[n].k].last_price_date)
         /\ requests[n].resp = "ok"
         /\ HasEvent("frame", requests[n].k)

\* C2: in 'auto' mode without a start date, a commodity without a last
\* price date raises no fault and gets a request for the full history (one
\* without a start date).
C2_NullDateFullHistory ==
    AutoMode =>
      \A k \in 1..Len(commodities) :
        (Entered(k) /\ IsNone(commodities[k].last_price_date)) =>
          /\ ~HasEvent("fetch_failed", k)
          /\ \E n \in 1..Len(requests) :
               requests[n].k = k /\ IsNone(requests[n].req.start)

\* C3: when the sql append of a commodity failed, the run ends only after
\* every later commodity has been fetched.
C3_TabularFailureContinues ==
    \A k \in 1..Len(commodities) :
      (HasEvent("sql_failed", k) /\ RunEnded) => LaterEntered(k)

\* C4: with to_csv set, the csv holds the rows of a commodity whose sql
\* append failed, and the csv append of a commodity is done whether its sql
\* append succeeds or fails.
C4_FileWrittenDespiteTabularFailure ==
    \A k \in 1..Len(commodities) :
      /\ (HasEvent("sql_failed", k) /\ cfg.to_csv) =>
           /\ HasEvent("csv", k)
           /\ i = k
           /\ FileEndsWith(comm_df.full_df)
      /\ (HasEvent("sql", k) /\ cfg.to_csv) => HasEvent("csv", k)

\* The sql append of a commodity failed in a run that writes the csv too.
C4_Witness ==
    /\ cfg.to_csv
    /\ \E k \in 1..Len(commodities) : HasEvent("sql_failed", k)

\* C5: with to_mdb set, the rows of a commodity whose csv append failed
\* are still appended to the prices table before the run ends.
C5_TabularWrittenDespiteFileFailure ==
    \A k \in 1..Len(commodities) :
      (HasEvent("csv_failed", k) /\ cfg.to_mdb /\ RunEnded) =>
        HasEvent("sql", k)

\* C6: a network fault of the quote source for a commodity ends only the
\* steps of that commodity: no sink is written for it, the run does not end
\* there, and it ends only after every later commodity has been fetched.
C6_FetchFailureIsolated ==
    \A n \in 1..Len(requests) :
      requests[n].resp = "ConnectionError" =>
        /\ ~SinkTouched(requests[n].k)
        /\ RunEnded => (i # requests[n].k /\ LaterEntered(requests[n].k))

\* C7: in 'auto' mode an IndexError of the quote source is caught: the
\* frame of the commodity is empty, no sink is written for it, the run does
\* not end at that commodity, and it ends only after every later commodity
\* has been fetched.
C7_IndexErrorIsNoData ==
    AutoMode =>
      \A n \in 1..Len(requests) :
        requests[n].resp = "IndexError" =>
          LET k == requests[n].k
          IN  /\ HasEvent("frame", k)
              /\ ~SinkTouched(k)
              /\ (i = k) => (comm_df = EmptyFrame /\ ~RunEnded)
              /\ (i > k) => HasEvent("done", k)
              /\ RunEnded => LaterEntered(k)

\* The first commodity met an IndexError in 'auto' mode and the second one
\* has been fetched.
C7_Witness ==
    /\ AutoMode
    /\ \E n \in 1..Len(requests) :
         /\ requests[n].resp = "IndexError"
         /\ requests[n].k = 1
    /\ HasEvent("done", 1)
    /\ HasEvent("frame", 2)

\* C8: a commodity for which history returned an empty table has no csv and
\* no sql append, the run does not end at it, it is done once the loop is
\* past it, and the csv is never left without a data row.
C8_EmptyTableSkipsSinks ==
    /\ \A n \in 1..Len(requests) :
         (requests[n].resp = "ok" /\ history(requests[n].req) = << >>) =>
           LET k == requests[n].k
           IN  /\ HasEvent("frame", k)
               /\ ~SinkTouched(k)
               /\ (i = k) => (comm_df = EmptyFrame /\ ~RunEnded)
               /\ (i > k) => HasEvent("done", k)
               /\ RunEnded => LaterEntered(k)
    /\ exists(file) => \E n \in 1..Len(Val(file)) : ~Val(file)[n].header

\* The first commodity got an empty table, is done, and the second one has
\* been fetched, in a run that writes both sinks.
C8_Witness ==
    /\ cfg.to_csv /\ cfg.to_mdb
    /\ \E n \in 1..Len(requests) :
         /\ requests[n].resp = "ok"
         /\ history(requests[n].req) = << >>
         /\ requests[n].k = 1
    /\ HasEvent("done", 1)
    /\ HasEvent("frame", 2)

\* C9: when the operator declines to overwrite the csv, the run does not
\* exit and goes on with to_csv off.
C9_DeclineDropsOnlyFileSink ==
    HasEvent("declined", 0) => (pc # "exited" /\ ~cfg.to_csv)

\* C10: starting without a csv, whenever the csv exists its first line is
\* the header and no other line is a header.
C10_HeaderOnce ==
    exists(file) =>
      /\ Len(Val(file)) >= 1
      /\ Val(file)[1].header
      /\ \A n \in 2..Len(Val(file)) : ~Val(file)[n].header

\* The first commodity of the second run was appended to a csv that an
\* earlier run had written.
C10_Witness ==
    /\ run = 2
    /\ HasEvent("csv", 1)
    /\ i = 1
    /\ exists(file)
    /\ Len(Val(file)) > 1 + Len(comm_df.full_df)

\* The table tbl is the table old with rows appended, or old itself.
IsExtension(old, tbl) ==
    /\ Len(old) <= Len(tbl)
    /\ \A k \in 1..Len(old) : tbl[k] = old[k]

\* C11: no step of the pipeline updates or deletes a row of the prices
\* table: after every step, also one that ends the run on a fetch or write
\* failure, the table is the table before the step with rows appended.
C11_AppendOnly == [][IsExtension(prices, prices')]_vars

\* The rows of the first commodity were appended and the run then ended on
\* a failure of the second one; the rows are still the last of the table.
C11_Witness ==
    /\ HasEvent("sql", 1)
    /\ HasEvent("fetch_failed", 2) \/ HasEvent("sql_failed", 2)
    /\ pc = "crashed"
    /\ Len(prices) > 0
    /\ prices[Len(prices)].guid > 0

\* The dates of the rows of tbl that belong to the commodity with guid g.
StoredDates(tbl, g) ==
    UNION { tbl[k].date :
              k \in { j \in 1..Len(tbl) : tbl[j].commodity_guid = g } }

\* C12: in a run in 'auto' mode that follows earlier runs, the quote source
\* unchanged, every request starts after every date the prices table holds
\* for the commodity, and every row the run appends carries a date after
\* every date the table held for that commodity: no row an earlier run
\* wrote is appended again.
C12_IncrementalRerun ==
    [][ AutoMode =>
          /\ \A n \in (Len(requests) + 1)..Len(requests') :
                LET r == requests'[n]
                IN  /\ ~IsNone(r.req.start)
                    /\ \A d \in StoredDates(prices, commodities[r.k].guid) :
                          d < Val(r.req.start)
          /\ \A n \in (Len(prices) + 1)..Len(prices') :
                /\ ~IsNone(prices'[n].date)
                /\ \A d \in StoredDates(prices, prices'[n].commodity_guid) :
                      d < Val(prices'[n].date) ]_vars

\* The second run, in 'auto' mode, appended rows of a commodity for which
\* an earlier run of the program had appended rows of earlier dates.
C12_Witness ==
    /\ run = 2
    /\ AutoMode
    /\ i > 1
    /\ HasEvent("sql", i - 1)
    /\ ~Entered(i)
    /\ comm_df.full_df # << >>
    /\ \E k \in 1..Len(prices) :
         /\ prices[k].guid > 0
         /\ prices[k].commodity_guid = commodities[i - 1].guid
         /\ prices[k].date # comm_df.full_df[1].date
         /\ \A j \in 1..Len(comm_df.full_df) :
              prices[k].guid # comm_df.full_df[j].guid

\* The run has its settings and a start date is set.
ExplicitMode == pc # "start" /\ ~IsNone(cfg.start_date)

\* The requests made for commodity k.
RequestsOf(k) == { n \in 1..Len(requests) : requests[n].k = k }

\* C13: with a start date set, history is called once for every commodity,
\* with that start date and the end date of the configuration and without
\* a period, whatever the last price date of the commodity (also none) and
\* whatever the period (also 'auto').
C13_ExplicitWindow ==
    ExplicitMode =>
      /\ \A n \in 1..Len(requests) :
           requests[n].req =
             DateRequest(yf_symbol(commodities[requests[n].k], cfg.currency),
                         Val(cfg.start_date), cfg.end_date)
      /\ \A k \in 1..Len(commodities) :
           Entered(k) => Cardinality(RequestsOf(k)) = 1
      /\ fault # "TypeError"

\* With a start date and the period 'auto', a commodity without a last
\* price date and one with a last price date both got their table.
C13_Witness ==
    /\ ExplicitMode
    /\ cfg.period = "auto"
    /\ \E k \in 1..Len(commodities) :
         /\ IsNone(commodities[k].last_price_date)
         /\ HasEvent("frame", k)
         /\ \E n \in RequestsOf(k) : requests[n].resp = "ok"
    /\ \E k \in 1..Len(commodities) :
         /\ ~IsNone(commodities[k].last_price_date)
         /\ HasEvent("frame", k)
         /\ \E n \in RequestsOf(k) : requests[n].resp = "ok"

\* C14: every request carries either a start and an end date and no period,
\* or a period and no date: the dates when a start date is set or the period
\* is 'auto', otherwise the period of the configuration, as it is.
C14_DatesOrPeriod ==
    \A n \in 1..Len(requests) :
      LET r == requests[n].req
      IN  /\ \/ ~IsNone(r.start) /\ ~IsNone(r.end) /\ IsNone(r.period)
             \/ IsNone(r.start) /\ IsNone(r.end) /\ ~IsNone(r.period)
          /\ (~IsNone(cfg.start_date) \/ cfg.period = "auto") =>
                IsNone(r.period)
          /\ (IsNone(cfg.start_date) /\ cfg.period # "auto") =>
                r.period = Some(cfg.period)

\* Without a start date and with the period '1d', a request with that
\* period got its table.
C14_Witness ==
    /\ pc # "start"
    /\ IsNone(cfg.start_date)
    /\ cfg.period = "1d"
    /\ \E n \in 1..Len(requests) :
         /\ requests[n].req.period = Some("1d")
         /\ requests[n].resp = "ok"
         /\ HasEvent("frame", requests[n].k)

\* C15: for a commodity whose mnemonic is the currency of the book, the
\* full frame is empty whatever table history returned, and neither the csv
\* nor the prices table is written for it.
C15_SelfPairEmpty ==
    pc # "start" =>
      \A k \in 1..Len(commodities) :
        commodities[k].mnemonic = cfg.currency =>
          /\ \A ds \in SUBSET Days :
               _set_full(QuoteRows(yf_symbol(commodities[k], cfg.currency), ds),
                         commodities[k], cfg.currency, nuuid) = << >>
          /\ (i = k /\ pc \in { "csv", "sql" }) => comm_df.full_df = << >>
          /\ ~SinkTouched(k)
          /\ (i > k) => HasEvent("done", k)

\* In a run that writes both sinks, history returned rows for the commodity
\* whose mnemonic is the currency of the book, and the loop is past it.
C15_Witness ==
    /\ cfg.to_csv /\ cfg.to_mdb
    /\ \E n \in 1..Len(requests) :
         /\ commodities[requests[n].k].mnemonic = cfg.currency
         /\ requests[n].resp = "ok"
         /\ history(requests[n].req) # << >>
         /\ HasEvent("done", requests[n].k)

\* The commodity of the catalog that a row of a frame was made for.
Owner(rec) ==
    commodities[CHOOSE k \in 1..Len(commodities) :
                  commodities[k].guid = rec.commodity_guid]

\* The number of decimals of the closes of a commodity.
Precision(c) == IF c.namespace = "CURRENCY" THEN 5 ELSE 2

\* value_denom of the row is that of its commodity, value_num is the
\* rounded close times value_denom, and value_num / value_denom rounded to
\* the decimals of the commodity is the close.
Scaled(rec) ==
    /\ rec.value_denom = Owner(rec).value_denom
    /\ rec.value_num = (rec.Close \div 10) * rec.value_denom
    /\ rec.Close % 10 = 0
    /\ Round((rec.value_num \div rec.value_denom) * 10,
             Precision(Owner(rec))) = rec.Close

\* A row of a security with value_denom 100: a quote of 101.234 gives the
\* close 101.23 and value_num 10123, a quote of 102.345 gives the close
\* c (in 10^-6) and value_num n.
Example(quote, rec, c, n) ==
    (rec.Namespace # "CURRENCY" /\ rec.value_denom = 100) =>
      /\ quote.Close = 101234000 =>
           (rec.Close = 101230000 /\ rec.value_num = 10123 * 100000)
      /\ quote.Close = 102345000 =>
           (rec.Close = c /\ rec.value_num = n * 100000)

\* C16 as stated: every row of a frame is scaled by the value_denom of its
\* commodity and gives back its close, and the security with value_denom
\* 100 and the quotes 101.234 and 102.345 has the closes 101.23 and 102.35
\* and the value_num 10123 and 10235.
C16_ScaledRoundTrip ==
    \A k \in 1..Len(comm_df.full_df) :
      /\ Scaled(comm_df.full_df[k])
      /\ Example(comm_df.yf_df[k], comm_df.full_df[k], 102350000, 10235)

\* C16 amended: the same, the quote 102.345 giving the close 102.34 and
\* the value_num 10234 (the double of 102.345 times 100 is 10234.5, and
\* rint takes that tie to the even 10234).
C16_ScaledRoundTripEven ==
    \A k \in 1..Len(comm_df.full_df) :
      /\ Scaled(comm_df.full_df[k])
      /\ Example(comm_df.yf_df[k], comm_df.full_df[k], 102340000, 10234)

\* In 'auto' mode the security with value_denom 100 got the two quotes
\* 101.234 and 102.345 of the days after its last price date.
C16_Witness ==
    /\ AutoMode
    /\ Len(comm_df.full_df) = 2
    /\ comm_df.yf_df[1].Close = 101234000
    /\ comm_df.yf_df[2].Close = 102345000
    /\ comm_df.full_df[1].Namespace # "CURRENCY"
    /\ comm_df.full_df[1].value_denom = 100
    /\ Owner(comm_df.full_df[1]).last_price_date
         = Some(comm_df.yf_df[1].date - 1)

Abs(x) == IF x < 0 THEN -x ELSE x

\* The close c (in 10^-6) is the quote q rounded to five decimals for the
\* namespace CURRENCY and to two decimals for any other: it has no digit
\* beyond them and is no further from q than half a unit of the last one.
RoundedByClass(namespace, q, c) ==
    LET u == IF namespace = "CURRENCY" THEN 10 ELSE 10000
    IN  c % u = 0 /\ 2 * Abs(c - q) <= u

\* Quotes of several magnitudes and several values of value_denom.
Magnitudes == { 1234565, 101234000, 199995000 }
Scales == { 1, 100 }

\* C17: the close of every row is the quote rounded to five decimals when
\* the namespace of the commodity is CURRENCY and to two decimals
\* otherwise; so it is for the rows of the frames and, for every commodity
\* of the catalog, for quotes of any magnitude and any value_denom.
C17_PrecisionByClass ==
    /\ \A k \in 1..Len(comm_df.full_df) :
         RoundedByClass(comm_df.full_df[k].Namespace,
                        comm_df.yf_df[k].Close, comm_df.full_df[k].Close)
    /\ \A k \in 1..Len(commodities) : \A q \in Magnitudes : \A d \in Scales :
         RoundedByClass(commodities[k].namespace, q,
             FullRow([ date |-> 1, Close |-> q ],
                     [ commodities[k] EXCEPT !.value_denom = d ],
                     cfg.currency, 0).Close)

\* After a security was written, the frame of a currency holds a close
\* that keeps more than two decimals and differs from its quote.
C17_Witness ==
    /\ \E k \in 1..Len(commodities) :
         commodities[k].namespace # "CURRENCY" /\ HasEvent("csv", k)
    /\ \E k \in 1..Len(comm_df.full_df) :
         /\ comm_df.full_df[k].Namespace = "CURRENCY"
         /\ comm_df.full_df[k].Close % 10000 # 0
         /\ comm_df.full_df[k].Close # comm_df.yf_df[k].Close

\* The rows of the csv: its lines but the header.
FileRows ==
    IF exists(file)
    THEN { Val(file)[n].row[1] :
             n \in { m \in 1..Len(Val(file)) : ~Val(file)[m].header } }
    ELSE {}

\* C18: no two rows of a frame have the same guid, no two rows of the
\* prices table and no two lines of the csv have the same guid, whichever
\* commodity and run they come from and also when their content is the
\* same, and a guid found in two places belongs to the same row (same
\* commodity and date).
C18_FreshRowIds ==
    /\ Cardinality({ comm_df.full_df[k].guid : k \in 1..Len(comm_df.full_df) })
         = Len(comm_df.full_df)
    /\ Cardinality({ prices[k].guid : k \in 1..Len(prices) }) = Len(prices)
    /\ exists(file) =>
         Cardinality({ r.guid : r \in FileRows }) = Len(Val(file)) - 1
    /\ \A r \in FileRows : \A k \in 1..Len(prices) :
         prices[k].guid = r.guid =>
           (prices[k].commodity_guid = r.commodity_guid
            /\ prices[k].date = r.date)

\* The prices table holds two rows the program wrote that have the same
\* content and differ in their guid, one of them in a frame of several
\* rows just appended.
C18_Witness ==
    /\ Len(comm_df.full_df) > 1
    /\ \E a, b \in 1..Len(prices) :
         /\ a < b
         /\ prices[a].guid > 0
         /\ prices[b].guid = comm_df.full_df[1].guid
         /\ prices[a].commodity_guid = prices[b].commodity_guid
         /\ prices[a].date = prices[b].date
         /\ prices[a].value_num = prices[b].value_num

\* history returned rows for commodity k and its full frame is not empty.
NonEmptyBatch(k) ==
    \E n \in RequestsOf(k) :
      /\ requests[n].resp = "ok"
      /\ _set_full(history(requests[n].req), commodities[k], cfg.currency, 0)
           # << >>

\* to_csv, to_sql has been called for commodity k.
CsvCalled(k) == HasEvent("csv", k) \/ HasEvent("csv_failed", k)
SqlCalled(k) == HasEvent("sql", k) \/ HasEvent("sql_failed", k)

\* The loop is past the csv step, past the sql step of commodity k.
PastCsv(k) ==
    \/ CsvCalled(k) \/ SqlCalled(k) \/ HasEvent("done", k)
    \/ (i = k /\ pc = "sql")
PastSql(k) == SqlCalled(k) \/ HasEvent("done", k)

\* C19: a sink is written only for a frame that is not empty and only when
\* its setting is on; for a frame that is not empty, once the loop is past
\* the csv step to_csv was called iff to_csv is set, once it is past the sql
\* step to_sql was called iff to_mdb is set, and a commodity that is done
\* has its rows in the csv iff to_csv and in the prices table iff to_mdb,
\* for each of the four settings.  (A to_csv that raises ends the run
\* before the sql step: that is C5.)
C19_SinksGatedByConfig ==
    pc # "start" =>
      \A k \in 1..Len(commodities) :
        /\ CsvCalled(k) => (cfg.to_csv /\ NonEmptyBatch(k))
        /\ SqlCalled(k) => (cfg.to_mdb /\ NonEmptyBatch(k))
        /\ (NonEmptyBatch(k) /\ PastCsv(k)) => (CsvCalled(k) <=> cfg.to_csv)
        /\ (NonEmptyBatch(k) /\ PastSql(k)) => (SqlCalled(k) <=> cfg.to_mdb)
        /\ (NonEmptyBatch(k) /\ HasEvent("done", k)) =>
             /\ HasEvent("csv", k) <=> cfg.to_csv
             /\ HasEvent("sql", k) <=> cfg.to_mdb
             /\ (i = k + 1 /\ ~Entered(i) /\ cfg.to_csv) =>
                  FileEndsWith(comm_df.full_df)
             /\ (i = k + 1 /\ ~Entered(i) /\ cfg.to_mdb) =>
                  \E pre \in 0..Len(prices) :
                    prices = SubSeq(prices, 1, pre) \o sql_df(comm_df.full_df)

\* A commodity with rows is done in a run that writes the prices table and
\* not the csv: its rows are in the table, the csv was not written.
C19_Witness ==
    /\ cfg.to_mdb /\ ~cfg.to_csv
    /\ \E k \in 1..Len(commodities) :
         /\ NonEmptyBatch(k)
         /\ HasEvent("done", k)
         /\ HasEvent("sql", k)
         /\ ~HasEvent("csv", k)

\* The columns of sql_df.
StructuredColumns ==
    { "guid", "commodity_guid", "currency_guid", "source", "type",
      "value_num", "value_denom" }

\* The rows of the prices table the program appended.
Appended == { k \in 1..Len(prices) : prices[k].guid > 0 }

\* The frame of commodity i - 1 is the last one appended to the table.
JustAppended == i > 1 /\ HasEvent("sql", i - 1) /\ ~Entered(i)

\* C20 as stated: a row the program appended to the prices table has the
\* seven columns of sql_df and no other.
C20_OnlyStructuredColumns ==
    \A k \in Appended : DOMAIN prices[k] = StructuredColumns

\* C20 amended: a row the program appended has the seven columns of sql_df
\* and the date, with the values of its row of the frame, and no other
\* column (Close, Curr, Symbol, Full_Name, Namespace).
C20_StructuredColumnsAndDate ==
    /\ \A k \in Appended :
         DOMAIN prices[k] = StructuredColumns \cup { "date" }
    /\ JustAppended =>
         LET n == Len(comm_df.full_df)
         IN  /\ Len(prices) >= n
             /\ \A j \in 1..n : \A col \in StructuredColumns \cup { "date" } :
                   prices[Len(prices) - n + j][col] = comm_df.full_df[j][col]

\* The rows of a frame have just been appended to the prices table.
C20_Witness ==
    /\ JustAppended
    /\ comm_df.full_df # << >>
    /\ Len(prices) \in Appended

\* The settings are silent mode and no password.
SilentNoPwd(c) == c.silent /\ ~c.pwd

\* C21: a run in silent mode without a password ends in process_config,
\* its first step: the catalog is not read, history is not called, nothing
\* is written, and the csv and the prices table are as they were.
C21_SilentNoPwdAborts ==
    /\ [][ (pc = "start" /\ SilentNoPwd(cfg')) =>
             /\ pc' \in { "crashed", "exited" }
             /\ file' = file
             /\ prices' = prices ]_vars
    /\ [](pc # "start" /\ SilentNoPwd(cfg) =>
             /\ RunEnded
             /\ fault \in { "ConfigError", "SystemExit" }
             /\ commodities = << >>
             /\ requests = << >>
             /\ events = << >>)

\* A run in silent mode without a password, with to_csv and overwrite_csv
\* set and a csv left by an earlier run, has ended.
C21_Witness ==
    /\ RunEnded
    /\ SilentNoPwd(cfg)
    /\ cfg.to_csv /\ cfg.overwrite_csv /\ cfg.to_mdb
    /\ file = EarlierFile

\* get_commodities has returned its rows in this run.
CatalogRead == i >= 1

\* The rows of the result have just been read: nothing was appended since.
JustRead == pc = "loop" /\ i = 1 /\ events = << >>

\* The commodities that are no template and are not EUR or CHE.
NotExcluded ==
    { c \in CommoditiesTable :
        c.namespace # "template" /\ c.mnemonic \notin { "EUR", "CHE" } }

\* The dates of the price rows of the commodity with guid g.
DatesOf(g) ==
    UNION { prices[k].date :
              k \in { j \in 1..Len(prices) : prices[j].commodity_guid = g } }

\* C22: the result of get_commodities has a row for every commodity that
\* is not excluded, also for one without a price row, and last_price_date
\* of a row is the greatest date of the price rows of the commodity, None
\* when it has no price row.
C22_CatalogComplete ==
    /\ CatalogRead =>
         \A c \in NotExcluded :
           \E k \in 1..Len(commodities) : commodities[k].guid = c.guid
    /\ JustRead =>
         \A k \in 1..Len(commodities) :
           LET ds == DatesOf(commodities[k].guid)
           IN  /\ ds = {} => IsNone(commodities[k].last_price_date)
               /\ ds # {} =>
                    /\ ~IsNone(commodities[k].last_price_date)
                    /\ Val(commodities[k].last_price_date) \in ds
                    /\ \A d \in ds : d <= Val(commodities[k].last_price_date)

\* C23: no row of the result of get_commodities has the namespace template
\* or the mnemonic EUR or CHE; history is never called for such a
\* commodity and no row of one is appended to the csv or the prices table.
C23_ExcludedNeverProcessed ==
    LET excluded == CommoditiesTable \ NotExcluded
    IN  /\ \A k \in 1..Len(commodities) :
             /\ commodities[k].namespace # "template"
             /\ commodities[k].mnemonic \notin { "EUR", "CHE" }
        /\ \A n \in 1..Len(requests) : \A c \in excluded :
             requests[n].req.symbol[1] # c.mnemonic
        /\ \A k \in Appended : \A c \in excluded :
             prices[k].commodity_guid # c.guid
        /\ \A r \in FileRows : \A c \in excluded :
             r.commodity_guid # c.guid

\* The prices table holds rows of EUR, of CHE and of the template, and the
\* run is done with rows appended to the csv and to the prices table.
C23_Witness ==
    /\ pc = "done"
    /\ \A g \in { "g_eur", "g_che", "g_tpl" } : DatesOf(g) # {}
    /\ Appended # {}
    /\ \E k \in 1..Len(commodities) : HasEvent("csv", k)

\* The place of a step in the processing of one commodity: the constructor
\* (fetch and full frame), the csv append, the sql append, done.
Rank(op) ==
    CASE op \in { "frame", "fetch_failed" } -> 1
      [] op \in { "csv", "csv_failed" } -> 2
      [] op \in { "sql", "sql_failed" } -> 3
      [] op = "done" -> 4
      [] OTHER -> 0

\* The commodities whose constructor was entered and that are not done.
InProgress ==
    { k \in 1..Len(commodities) : Entered(k) /\ ~HasEvent("done", k) }

\* C24: the steps of the run are in the order of the catalog and, for one
\* commodity, in the order constructor, csv append, sql append, done, each
\* at most once; a sink is written for a commodity only after its frame was
\* built, the constructor of a commodity is entered only after the one
\* before is done, and at most one commodity is in progress.
C24_StrictlySequential ==
    /\ \A a, b \in 1..Len(events) :
         (a < b /\ events[a].k > 0) =>
           \/ events[a].k < events[b].k
           \/ /\ events[a].k = events[b].k
              /\ Rank(events[a].op) < Rank(events[b].op)
    /\ \A b \in 1..Len(events) :
         /\ Rank(events[b].op) \in { 2, 3 } =>
              \E a \in 1..(b - 1) : events[a] = Event("frame", events[b].k)
         /\ (Rank(events[b].op) = 1 /\ events[b].k > 1) =>
              \E a \in 1..(b - 1) : events[a] = Event("done", events[b].k - 1)
    /\ pc \in { "csv", "sql" } => (HasEvent("frame", i) /\ InProgress = { i })
    /\ Cardinality(InProgress) <= 1

\* The run is done with two commodities, each appended to the csv and to
\* the prices table.
C24_Witness ==
    /\ pc = "done"
    /\ Len(commodities) = 2
    /\ \A k \in 1..2 : HasEvent("csv", k) /\ HasEvent("sql", k)

\* C25: when ppprocedure and ppdb are set, the loop has gone through every
\* commodity and the operator has not declined, in silent mode too, the
\* stored procedure has been executed once when the run has ended (unless
\* its own call failed in the database); it is never executed twice, and
\* never before every commodity is done.
C25_PostProcessingOnce ==
    /\ pp_executed <= 1
    /\ pp_executed = 1 =>
         \A k \in 1..Len(commodities) : HasEvent("done", k)
    /\ ( /\ cfg.ppprocedure /\ cfg.ppdb
         /\ CatalogRead /\ i > Len(commodities)
         /\ RunEnded
         /\ fault # "OperationalError"
         /\ cfg.silent \/ execute_ppprocedure # Some(FALSE) )
       => pp_executed = 1

\* The index in the catalog of the commodity with guid g.
CatalogIndex(g) ==
    CHOOSE k \in 1..Len(commodities) : commodities[k].guid = g

\* Row r1 comes before row r2 in the order of the run: an earlier commodity
\* of the catalog, or the same commodity and an earlier date.
Before(r1, r2) ==
    \/ CatalogIndex(r1.commodity_guid) < CatalogIndex(r2.commodity_guid)
    \/ /\ r1.commodity_guid = r2.commodity_guid
       /\ Val(r1.date) < Val(r2.date)

\* C26: the full frame of a commodity whose mnemonic is not the currency
\* has one row for every row history returned, in the same order, the
\* dates ascending; the rows the run appended to the prices table and the
\* lines it appended to the csv are in the order of the catalog and, for
\* one commodity, in the order of the dates.
C26_OrderPreserving ==
    /\ comm_df.full_df # << >> =>
         /\ Len(comm_df.full_df) = Len(comm_df.yf_df)
         /\ \A k \in 1..Len(comm_df.full_df) :
              comm_df.full_df[k].date = Some(comm_df.yf_df[k].date)
         /\ \A k \in 1..(Len(comm_df.full_df) - 1) :
              Val(comm_df.full_df[k].date) < Val(comm_df.full_df[k + 1].date)
    /\ (pc \in { "csv", "sql" } /\ comm_df.yf_df # << >>
          /\ commodities[i].mnemonic # cfg.currency) =>
         Len(comm_df.full_df) = Len(comm_df.yf_df)
    /\ \A a, b \in Appended : a < b => Before(prices[a], prices[b])
    /\ exists(file) =>
         \A a, b \in 1..Len(Val(file)) :
           ( /\ a < b
             /\ ~Val(file)[a].header /\ ~Val(file)[b].header
             /\ Val(file)[a].row[1].guid > 0 ) =>
             /\ Val(file)[b].row[1].guid > 0
             /\ Before(Val(file)[a].row[1], Val(file)[b].row[1])

\* The run is done with two commodities of several rows each in the csv
\* and in the prices table.
C26_Witness ==
    /\ pc = "done"
    /\ Len(commodities) = 2
    /\ \A k \in 1..2 : HasEvent("csv", k) /\ HasEvent("sql", k)
    /\ \A k \in 1..2 :
         Cardinality({ a \in Appended :
                         prices[a].commodity_guid = commodities[k].guid }) > 1

\* C27: the csv is deleted only in the prompts of main, in a run that is
\* not silent, with to_csv chosen, and the run goes on (the operator agreed
\* to overwrite); in every other step, and in every step of a silent run
\* whatever overwrite_csv, a csv that exists keeps its lines and gets
\* lines appended at most.
C27_DeletedOnlyOnOverwrite ==
    [][ exists(file) =>
          /\ ~exists(file') =>
               /\ pc = "main"
               /\ ~cfg.silent
               /\ cfg'.to_csv
               /\ pc' = "connect"
          /\ exists(file') => IsExtension(Val(file), Val(file')) ]_vars

\* A silent run with to_csv and overwrite_csv set has appended a frame to
\* the csv an earlier run left behind.
C27_Witness ==
    /\ cfg.silent /\ cfg.to_csv /\ cfg.overwrite_csv
    /\ HasEvent("csv", 1)
    /\ exists(file)
    /\ Len(Val(file)) > Len(Val(EarlierFile))
    /\ IsExtension(Val(EarlierFile), Val(file))

\* C28: an IndexError of history is caught in 'auto' mode only: with a
\* start date or a named period it leaves the constructor, no frame is
\* built for the commodity, no sink is written for it and the run ends
\* with that exception; in 'auto' mode the frame is built and the run does
\* not end with it.
C28_IndexErrorOnlyInAuto ==
    pc # "start" =>
      \A n \in 1..Len(requests) :
        requests[n].resp = "IndexError" =>
          LET k == requests[n].k
          IN  /\ AutoMode => (HasEvent("frame", k) /\ fault # "IndexError")
              /\ ~AutoMode =>
                   /\ HasEvent("fetch_failed", k)
                   /\ ~HasEvent("frame", k)
                   /\ ~SinkTouched(k)
                   /\ pc = "crashed"
                   /\ fault = "IndexError"
                   /\ i = k

\* history raised IndexError for the second commodity in a run with a
\* named period, the first commodity written to both sinks.
C28_Witness ==
    /\ IsNone(cfg.start_date)
    /\ cfg.period \in { "1d", "max" }
    /\ HasEvent("csv", 1) /\ HasEvent("sql", 1)
    /\ \E n \in 1..Len(requests) :
         requests[n].resp = "IndexError" /\ requests[n].k = 2
    /\ fault = "IndexError"

\* The start date _get_yf resolves for the row c of a catalog in 'auto'
\* mode without a start date; None when it makes no request.
AutoStart(c) ==
    LET r == _get_yf(c, cfg.currency,
                     [ cfg EXCEPT !.period = "auto", !.start_date = None ],
                     "ok").requests
    IN  IF r = << >> THEN None ELSE r[1].req.start

\* The rows the results of get_commodities(tbl) are made of: one for every
\* joined commodity and every row the GROUP BY may take its columns from.
CatalogRows(tbl) ==
    UNION { { CommodityRow(tbl, c, r) : r \in Representatives(tbl, c) } :
              c \in JoinedCommodities(tbl) }

\* C29: when a run with to_mdb off has ended, whatever it appended to the
\* csv, the catalog the following run reads from the prices table has for
\* every commodity the last price date this run read, and an 'auto' run
\* resolves the same start date from it.
C29_ProgressOnlyThroughStore ==
    (RunEnded /\ CatalogRead /\ ~cfg.to_mdb) =>
        /\ Cardinality(JoinedCommodities(prices)) = Len(commodities)
        /\ \A row \in CatalogRows(prices) :
             \E k \in 1..Len(commodities) :
               /\ commodities[k].guid = row.guid
               /\ commodities[k].last_price_date = row.last_price_date
               /\ AutoStart(commodities[k]) = AutoStart(row)

\* The second run, in 'auto' mode, has made a request after a run that
\* appended rows to the csv and none to the prices table.
C29_Witness ==
    /\ run = 2
    /\ AutoMode
    /\ Appended = {}
    /\ FileRows # {}
    /\ \A n \in 1..Len(events) : events[n].op # "csv"
    /\ \E n \in 1..Len(requests) : requests[n].resp = "ok"

\* history, to_csv or to_sql raised an exception that nothing caught.
SourceOrSinkFault ==
    \E k \in 1..Len(commodities) :
        \/ HasEvent("csv_failed", k)
        \/ HasEvent("sql_failed", k)
        \/ /\ HasEvent("fetch_failed", k)
           /\ \E n \in 1..Len(requests) :
                requests[n].k = k /\ requests[n].resp = fault

\* The number of times the loop finished the commodity k.
DoneCount(k) ==
    Cardinality({ n \in 1..Len(events) : events[n] = Event("done", k) })

\* The number of times a CommodityDataFrame was constructed for k.
FrameCount(k) ==
    Cardinality({ n \in 1..Len(events) :
                    events[n].k = k
                    /\ events[n].op \in { "frame", "fetch_failed" } })

\* C30: no commodity is processed twice, and a run that read the catalog
\* and met no uncaught exception of history, to_csv or to_sql ends with
\* every commodity of the catalog processed once and done.
C30_EveryCommodityDone ==
    /\ \A k \in 1..Len(commodities) : DoneCount(k) <= 1 /\ FrameCount(k) <= 1
    /\ (RunEnded /\ CatalogRead /\ ~SourceOrSinkFault) =>
          \A k \in 1..Len(commodities) :
              DoneCount(k) = 1 /\ FrameCount(k) = 1

\* The same, for the runs in which no last price date is NULL.
C30_DoneUnlessNullDate ==
    /\ \A k \in 1..Len(commodities) : DoneCount(k) <= 1 /\ FrameCount(k) <= 1
    /\ (RunEnded /\ CatalogRead /\ ~SourceOrSinkFault /\ fault # "TypeError") =>
          \A k \in 1..Len(commodities) :
              DoneCount(k) = 1 /\ FrameCount(k) = 1

\* A run in which every commodity is done, one of them with an empty
\* DataFrame and one with rows.
C30_BothKindsDone ==
    /\ RunEnded
    /\ Len(commodities) = 2
    /\ \A k \in 1..2 : DoneCount(k) = 1
    /\ \E k \in 1..2 : CsvCalled(k) \/ SqlCalled(k)
    /\ \E k \in 1..2 : ~CsvCalled(k) /\ ~SqlCalled(k)
    /\ cfg.to_csv /\ cfg.to_mdb

\* The number of steps a run can still take at most: the prompts, the
\* connection, three steps for each commodity not yet taken and the post
\* processing.
StepsLeft ==
    CASE pc = "start"   -> 3 * 3 + 4
      [] pc = "main"    -> 3 * 3 + 3
      [] pc = "connect" -> 3 * 3 + 2
      [] pc = "loop"    -> 3 * (Len(commodities) + 1 - i) + 1
      [] pc = "csv"     -> 3 * (Len(commodities) + 1 - i)
      [] pc = "sql"     -> 3 * (Len(commodities) + 1 - i) - 1
      [] OTHER          -> 0

\* A step of a run brings its end nearer: the loop has no way back.
C30_StepsDecrease ==
    [][ run' = run => (StepsLeft' < StepsLeft /\ StepsLeft' >= 0) ]_vars

====
